---------------------------- MODULE Spec2Model ----------------------------
(***************************************************************************)
(* A model of WebScraper (web_scraper.py): the robots gate, the per-domain *)
(* rate limiter, the retrying fetch with exponential backoff, the          *)
(* script-rendered fetch, content extraction and the batch loop.           *)
(*                                                                         *)
(* Strings are modelled as run-length texts: a text is a sequence of       *)
(* integers, where n > 0 stands for a run of n characters that are neither *)
(* a space nor a full stop, 0 for one space and -1 for one full stop.  Two *)
(* adjacent runs are always merged, so that a text has one representation. *)
(* Lengths, slicing, splitting on ". ", joining and word counting are      *)
(* exact on this representation.                                           *)
(***************************************************************************)
EXTENDS Integers, Sequences, FiniteSets, TLC

VARIABLES
    now,                \* the wall clock, time.time(), in seconds
    workers,            \* the threads running scrape_multiple_pages on the one scraper
    max_retries,        \* self.max_retries
    rate_limit,         \* self.rate_limit
    enable_js,          \* self.enable_js
    summarize_content,  \* self.summarize_content
    last_request_time,  \* self.last_request_time: netloc -> time of the last request
    urls,               \* per worker: the argument of scrape_multiple_pages
    idx,                \* per worker: position of the for loop over urls
    results,            \* per worker: the results dict
    pc,                 \* per worker: where the worker stands
    attempt,            \* per worker: fetch_page's loop variable
    wake,               \* per worker: the time a time.sleep() in progress ends
    html,               \* per worker: what fetch_page / fetch_js_page returned
    cur,                \* per worker: history of the scrape_page call in progress
    sent,               \* history: origin -> time of the last page request sent to it
    gaps,               \* history: origin -> time between the last two page requests
    x_html,             \* extract_content: argument html
    x_url,              \* extract_content: argument url
    x_out,              \* extract_content: what the call returned
    x_pc,               \* extract_content: "call", "returned" or "raised"
    s_text,             \* summarize_text: argument text
    s_out,              \* summarize_text: what the call returned
    s_pc                \* summarize_text: "idle", "call" or "returned"

vars == <<now, workers, max_retries, rate_limit, enable_js, summarize_content,
          last_request_time, urls, idx, results, pc, attempt, wake, html, cur,
          sent, gaps, x_html, x_url, x_out, x_pc, s_text, s_out, s_pc>>

scraper_vars == <<now, workers, max_retries, rate_limit, enable_js,
                  last_request_time, urls, idx, results, pc, attempt, wake,
                  html, cur, sent, gaps>>

extract_vars == <<x_html, x_url, x_out, x_pc>>

summarize_vars == <<s_text, s_out, s_pc>>

---------------------------------------------------------------------------
(* Texts *)

Space == 0
Dot == -1

CharLen(tok) == IF tok > 0 THEN tok ELSE 1

\* len(text[lo-1:hi]), by halving
RECURSIVE RunLen(_, _, _)
RunLen(t, lo, hi) ==
    IF lo > hi THEN 0
    ELSE IF lo = hi THEN CharLen(t[lo])
    ELSE RunLen(t, lo, (lo + hi) \div 2) + RunLen(t, (lo + hi) \div 2 + 1, hi)

\* len(text)
TLen(t) == RunLen(t, 1, Len(t))

\* a + b
Cat(a, b) ==
    IF a # <<>> /\ b # <<>> /\ a[Len(a)] > 0 /\ b[1] > 0
    THEN SubSeq(a, 1, Len(a) - 1) \o <<a[Len(a)] + b[1]>> \o Tail(b)
    ELSE a \o b

\* the first n characters of the runs lo .. hi of t, by halving
RECURSIVE TakeRuns(_, _, _, _)
TakeRuns(t, lo, hi, n) ==
    IF n <= 0 \/ lo > hi THEN <<>>
    ELSE IF lo = hi THEN (IF CharLen(t[lo]) <= n THEN <<t[lo]>> ELSE <<n>>)
    ELSE LET mid == (lo + hi) \div 2
             left == RunLen(t, lo, mid)
         IN IF left >= n THEN TakeRuns(t, lo, mid, n)
            ELSE SubSeq(t, lo, mid) \o TakeRuns(t, mid + 1, hi, n - left)

\* text[:n]
Take(t, n) == TakeRuns(t, 1, Len(t), n)

\* text.strip()
RECURSIVE LStrip(_)
LStrip(t) == IF t # <<>> /\ Head(t) = Space THEN LStrip(Tail(t)) ELSE t

RECURSIVE RStrip(_)
RStrip(t) ==
    IF t # <<>> /\ t[Len(t)] = Space THEN RStrip(SubSeq(t, 1, Len(t) - 1)) ELSE t

Strip(t) == RStrip(LStrip(t))

\* text.find(". ") + 1: the place of the first ". ", 0 when there is none
FindDotSp(t) ==
    LET hits == {i \in 1..(Len(t) - 1) : t[i] = Dot /\ t[i + 1] = Space}
    IN IF hits = {} THEN 0 ELSE CHOOSE i \in hits : \A j \in hits : i <= j

\* text.split(". ")
RECURSIVE SplitDotSp(_)
SplitDotSp(t) ==
    LET i == FindDotSp(t)
    IN IF i = 0 THEN <<t>>
       ELSE <<SubSeq(t, 1, i - 1)>> \o SplitDotSp(SubSeq(t, i + 2, Len(t)))

\* sep.join(parts)
RECURSIVE Join(_, _)
Join(sep, parts) ==
    IF parts = <<>> THEN <<>>
    ELSE IF Len(parts) = 1 THEN parts[1]
    ELSE Cat(Cat(parts[1], sep), Join(sep, Tail(parts)))

\* len(text.split()): the maximal runs of characters other than spaces
WordCount(t) ==
    Cardinality({i \in 1..Len(t) : t[i] # Space /\ (i = 1 \/ t[i - 1] = Space)})

\* k words of l characters each, separated by single spaces
Words(k, l) == [i \in 1..(IF k = 0 THEN 0 ELSE 2 * k - 1) |-> IF i % 2 = 1 THEN l ELSE Space]

\* a sentence: k words of l characters and a full stop
Sentence(k, l) == Words(k, l) \o <<Dot>>

---------------------------------------------------------------------------
(* URLs.  A URL is a record of its scheme, host, port ("" when the URL     *)
(* names none) and path; path i stands for "/p<i>" and RobotsPath for      *)
(* "/robots.txt".                                                          *)

RobotsPath == 0

Url(s, h, p, path) == [scheme |-> s, host |-> h, port |-> p, path |-> path]

\* urlparse(url).netloc: the host and, when the URL names one, the port
Netloc(u) == <<u.host, u.port>>

\* the spec's origin: scheme and host
Origin(u) == <<u.scheme, u.host>>

\* f"{parsed_url.scheme}://{parsed_url.netloc}/robots.txt"
RobotsUrl(u) == [u EXCEPT !.path = RobotsPath]

\* str(url) as a text
SchemeText(s) == IF s = "https" THEN <<5>> ELSE <<4>>
HostText(h) == <<1, Dot, Len(h) - 2>>
PortText(p) == IF p = "" THEN <<>> ELSE <<5>>
PathText(path) == IF path = RobotsPath THEN <<7, Dot, 3>> ELSE IF path < 10 THEN <<3>> ELSE <<4>>
UrlText(u) ==
    Cat(Cat(Cat(Cat(SchemeText(u.scheme), <<3>>), HostText(u.host)), PortText(u.port)),
        PathText(u.path))

(* An anchor element: without href, with an absolute href, or with a       *)
(* root-relative one ("/p<i>").                                            *)
NoHref == [kind |-> "none", scheme |-> "", host |-> "", port |-> "", path |-> 0]
AbsHref(u) == [kind |-> "abs", scheme |-> u.scheme, host |-> u.host, port |-> u.port, path |-> u.path]
RelHref(path) == [kind |-> "rel", scheme |-> "", host |-> "", port |-> "", path |-> path]

\* urljoin(url, a["href"])
urljoin(base, a) ==
    IF a.kind = "abs" THEN Url(a.scheme, a.host, a.port, a.path)
    ELSE [base EXCEPT !.path = a.path]

---------------------------------------------------------------------------
(* Markup.  A document is its title ("" when it has none), its meta        *)
(* description and keywords ("absent", "nocontent" for a tag without a     *)
(* content attribute, or the attribute's value) and its top-level nodes,   *)
(* each with a tag, the texts of its <p> elements and its <a> elements.    *)
(* The tag "body" is content that lies in none of the containers.  empty   *)
(* says that the markup is the empty string.                               *)

Doc(title, description, keywords, nodes) ==
    [empty |-> FALSE, title |-> title, description |-> description,
     keywords |-> keywords, nodes |-> nodes]

EmptyBody == [empty |-> TRUE, title |-> "", description |-> "absent",
              keywords |-> "absent", nodes |-> <<>>]

Node(tag, paras, anchors) == [tag |-> tag, paras |-> paras, anchors |-> anchors]

Decomposed == {"script", "style", "nav", "footer", "header"}

RECURSIVE SelectSeq2(_, _)
SelectSeq2(s, tags) ==
    IF s = <<>> THEN <<>>
    ELSE IF Head(s).tag \in tags THEN SelectSeq2(Tail(s), tags)
    ELSE <<Head(s)>> \o SelectSeq2(Tail(s), tags)

\* for element in soup([...]): element.decompose()
Decompose(nodes) == SelectSeq2(nodes, Decomposed)

\* soup.find(tag): the place of the first node with the tag, 0 when none
Find(nodes, tag) ==
    LET hits == {i \in 1..Len(nodes) : nodes[i].tag = tag}
    IN IF hits = {} THEN 0 ELSE CHOOSE i \in hits : \A j \in hits : i <= j

RECURSIVE AllParas(_)
AllParas(nodes) ==
    IF nodes = <<>> THEN <<>> ELSE Head(nodes).paras \o AllParas(Tail(nodes))

RECURSIVE AllAnchors(_)
AllAnchors(nodes) ==
    IF nodes = <<>> THEN <<>> ELSE Head(nodes).anchors \o AllAnchors(Tail(nodes))

\* main_content.find_all("p") of the first of main, article, section, div, soup
MainParas(nodes) ==
    IF Find(nodes, "main") # 0 THEN nodes[Find(nodes, "main")].paras
    ELSE IF Find(nodes, "article") # 0 THEN nodes[Find(nodes, "article")].paras
    ELSE IF Find(nodes, "section") # 0 THEN nodes[Find(nodes, "section")].paras
    ELSE IF Find(nodes, "div") # 0 THEN nodes[Find(nodes, "div")].paras
    ELSE AllParas(nodes)

\* extract_metadata
extract_metadata(doc) ==
    [raised |-> doc.description = "nocontent" \/ doc.keywords = "nocontent",
     title |-> IF doc.title # "" THEN doc.title ELSE "No Title",
     description |-> IF doc.description # "absent" THEN doc.description ELSE "No Description",
     keywords |-> IF doc.keywords # "absent" THEN doc.keywords ELSE "No Keywords"]

---------------------------------------------------------------------------
(* extract_content and summarize_text *)

MaxContentChars == 2400
MaxLinks == 10
SummarizeWords == 100
SummarySentences == 3

DotSp == <<Dot, Space>>
Ellipsis == <<Dot, Dot, Dot>>

\* "No main content found."
NoMainContent == <<2, Space, 4, Space, 7, Space, 5, Dot>>

Range(s) == {s[i] : i \in 1..Len(s)}

\* list(set(links)): the distinct elements, in some order
RECURSIVE SetToSeq(_)
SetToSeq(S) ==
    IF S = {} THEN <<>>
    ELSE LET x == CHOOSE y \in S : TRUE IN <<x>> \o SetToSeq(S \ {x})

\* sentences[:3] joined by ". ", then "...", when there are more than 3 sentences
summarize_textAtLeast(text) ==
    LET sentences == SplitDotSp(text)
    IN IF Len(sentences) >= SummarySentences
       THEN Cat(Join(DotSp, SubSeq(sentences, 1, SummarySentences)), Ellipsis)
       ELSE text

summarize_text(text) ==
    LET sentences == SplitDotSp(text)
    IN IF Len(sentences) > SummarySentences
       THEN Cat(Join(DotSp, SubSeq(sentences, 1, SummarySentences)), Ellipsis)
       ELSE text

\* " ".join(p.get_text().strip() for p in paragraphs)[:2400]
BodyText(paragraphs) ==
    Take(Join(<<Space>>, [i \in 1..Len(paragraphs) |-> Strip(paragraphs[i])]),
         MaxContentChars)

\* if self.summarize_content and len(content.split()) > 100
Summarized(content, summarize) ==
    IF summarize /\ WordCount(content) > SummarizeWords
    THEN summarize_text(content)
    ELSE content

\* [urljoin(url, a["href"]) for a in soup.find_all("a", href=True)]
RECURSIVE Resolved(_, _)
Resolved(anchors, url) ==
    IF anchors = <<>> THEN <<>>
    ELSE IF Head(anchors).kind = "none" THEN Resolved(Tail(anchors), url)
    ELSE <<urljoin(url, Head(anchors))>> \o Resolved(Tail(anchors), url)

\* list(set(links)) of the resolved hrefs [:10]
Links(anchors, url) ==
    LET all == Resolved(anchors, url)
    IN SetToSeq(Range(SubSeq(all, 1, IF Len(all) < MaxLinks THEN Len(all) ELSE MaxLinks)))

\* extract_content(html, url) with self.summarize_content = summarize: whether it
\* raised, and the dict it returned
extract_content(doc, url, summarize) ==
    LET soup == Decompose(doc.nodes)
        metadata == extract_metadata(doc)
        content == Summarized(BodyText(MainParas(soup)), summarize)
    IN [raised |-> metadata.raised,
        value |-> [title |-> metadata.title,
                   description |-> metadata.description,
                   keywords |-> metadata.keywords,
                   content |-> IF content # <<>> THEN content ELSE NoMainContent,
                   links |-> Links(AllAnchors(soup), url)]]

---------------------------------------------------------------------------
(* The inputs of extract_content *)

MaxParas == 4
MaxDup == 10
MaxDistinct == 11
MaxNodes == 2

BaseUrl == Url("http", "a.example", "", 1)

SeqsUpTo(S, n) == UNION {[1..k -> S] : k \in 0..n}

\* paragraph texts: an empty one, 47 words of 16 characters and a full stop, a short
\* sentence in spaces, and 60 short words
ParaChoices ==
    {<<>>, Sentence(47, 16), <<Space>> \o Sentence(2, 3) \o <<Space>>, Words(60, 2)}

\* n anchors to "/p1", the first of them by its absolute URL, then m anchors to
\* "/p1" .. "/p<m>"
AnchorRun(n, m) ==
    [i \in 1..(n + m) |->
        IF i = 1 /\ n > 0 THEN AbsHref([BaseUrl EXCEPT !.path = 1])
        ELSE IF i <= n THEN RelHref(1) ELSE RelHref(i - n)]

NodeTags == {"main", "article", "section", "div", "body", "nav", "script"}

\* documents that differ in their paragraphs, in their anchors, in their metadata, and
\* in their nodes
TextDocs == {Doc("T", "absent", "absent", <<Node("body", ps, <<>>)>>) :
                ps \in SeqsUpTo(ParaChoices, MaxParas)}
AnchorDocs == {Doc("T", "absent", "absent", <<Node("body", <<>>, AnchorRun(n, m))>>) :
                n \in 0..MaxDup, m \in 0..MaxDistinct}
             \cup {Doc("T", "absent", "absent",
                       <<Node("body", <<>>, <<NoHref>> \o AnchorRun(n, 2))>>) :
                   n \in 0..MaxDup}
MetaDocs == {Doc(t, d, k, <<>>) :
                t \in {"", "T"}, d \in {"absent", "nocontent", "D"},
                k \in {"absent", "nocontent", "K"}}
NodeDocs == {Doc("", "absent", "absent",
                 [i \in 1..Len(tags) |->
                     Node(tags[i], <<Words(i, 3)>>, <<RelHref(i)>>)]) :
                tags \in SeqsUpTo(NodeTags, MaxNodes)}

ExtractDocs == TextDocs \cup AnchorDocs \cup MetaDocs \cup NodeDocs \cup {EmptyBody}

---------------------------------------------------------------------------
(* The scraper *)

MaxUrls == 2
MaxRetries == 3
MaxRateLimit == 2

AllWorkers == {1, 2}

\* the URLs scraped: one host, on two ports and under two schemes
PageUrls ==
    {Url("http", "a.example", "", 1), Url("http", "a.example", "8080", 2),
     Url("https", "a.example", "", 2)}

\* those that name no port: their origin decides their netloc
PortlessUrls == {u \in PageUrls : u.port = ""}

\* the bodies a server answers with: the empty string, a page, and a page whose
\* <meta name="description"> has no content attribute
GoodDoc ==
    Doc("T", "D", "absent",
        <<Node("nav", <<Words(1, 4)>>, <<RelHref(3)>>),
          Node("main", <<Sentence(2, 3), Sentence(1, 5)>>, <<RelHref(1), RelHref(1), NoHref>>),
          Node("div", <<Words(3, 2)>>, <<RelHref(2)>>)>>)
BadMetaDoc == Doc("T", "nocontent", "absent", <<Node("body", <<Words(2, 3)>>, <<>>)>>)
ServedDocs == {EmptyBody, GoodDoc, BadMetaDoc}

\* what fetch_page and fetch_js_page return: None or the markup
None == [none |-> TRUE, doc |-> EmptyBody]
Markup(doc) == [none |-> FALSE, doc |-> doc]

\* "Access denied by robots.txt" and f"Failed to fetch {url}"
AccessDenied == <<6, Space, 6, Space, 2, Space, 6, Dot, 3>>
FailedToFetch(url) == Cat(<<6, Space, 2, Space, 5, Space>>, UrlText(url))

DeniedSentinel == [content |-> AccessDenied, links |-> <<>>, title |-> "No Title"]
FailedSentinel(url) == [content |-> FailedToFetch(url), links |-> <<>>, title |-> "No Title"]

(* What the retrieval of robots.txt comes to: a document whose rules allow *)
(* or disallow the URL, a document without a rule, bytes that are not      *)
(* UTF-8, an HTTP error status, or no answer (connection error, timeout).  *)
RobotsOutcomes ==
    {"allow", "disallow", "norules", "undecodable", "http401", "http403",
     "http404", "http500", "unreachable"}

\* the policy could not be retrieved or parsed
Unavailable == RobotsOutcomes \ {"allow", "disallow"}

(* can_fetch: rp.read() raises on "unreachable" (URLError) and on          *)
(* "undecodable" (UnicodeDecodeError), and the handler answers True; on an *)
(* HTTP error read() returns normally with disallow_all set (401, 403),    *)
(* allow_all set (other 4xx) or nothing set (5xx), and rp.can_fetch        *)
(* answers False, True and, nothing having been parsed, False.             *)
can_fetch(outcome) ==
    CASE outcome \in {"unreachable", "undecodable"} -> TRUE
      [] outcome \in {"http401", "http403"} -> FALSE
      [] outcome = "http404" -> TRUE
      [] outcome = "http500" -> FALSE
      [] outcome = "disallow" -> FALSE
      [] OTHER -> TRUE

\* a slip: if self.can_fetch(url)
DeniedInverted(allowed) == allowed

\* if not self.can_fetch(url)
Denied(allowed) == ~allowed

\* a slip: range(self.max_retries + 1)
MoreAttemptsOneMore(a) == a <= max_retries

\* for attempt in range(self.max_retries)
MoreAttempts(a) == a < max_retries

\* if domain in self.last_request_time and elapsed_time < self.rate_limit
TooSoon(domain) ==
    /\ domain \in DOMAIN last_request_time
    /\ now - last_request_time[domain] < rate_limit

\* self.rate_limit - elapsed_time
Deficit(domain) == rate_limit - (now - last_request_time[domain])

\* a slip: 2 * attempt
BackoffLinear(a) == 2 * a

\* 2 ** attempt
Backoff(a) == 2 ^ a

\* if not html
NotHtml(h) == h.none \/ h.doc.empty

\* awaited: respect_rate_limit has been called and no request sent since;
\* bypass: the kinds of request sent without that call before them;
\* browser: "none", then "failed" (launch raised), or "open" and then "closed";
\* launches: the calls of chromium.launch;
\* checked, suspend: of the respect_rate_limit call in progress, the time of its check
\* and the sleep it asked for
NoCall == [url |-> Url("", "", "", 0), robots |-> "", allowed |-> FALSE, nreq |-> 0,
           outcomes |-> <<>>, times |-> <<>>, sleeps |-> <<>>,
           awaited |-> FALSE, bypass |-> {}, browser |-> "none", launches |-> 0,
           checked |-> 0, suspend |-> 0]

\* an HTTP request of the given kind goes out during the call with history c
Request(c, kind) ==
    [c EXCEPT !.bypass = IF c.awaited THEN @ ELSE @ \cup {kind}, !.awaited = FALSE,
              !.checked = 0, !.suspend = 0]

\* scrape_page returns result: results[url] = result, and the loop goes on
Return(w, result) ==
    /\ results' = [results EXCEPT ![w] = (cur[w].url :> result) @@ results[w]]
    /\ idx' = [idx EXCEPT ![w] = idx[w] + 1]
    /\ pc' = [pc EXCEPT ![w] = "loop"]

\* an exception leaves scrape_page and scrape_multiple_pages
Raise(w) ==
    /\ pc' = [pc EXCEPT ![w] = "raised"]
    /\ UNCHANGED <<results, idx>>

\* for url in urls: the next call of scrape_page, or return results
Loop(w) ==
    /\ pc[w] = "loop"
    /\ IF idx[w] <= Len(urls[w])
       THEN /\ pc' = [pc EXCEPT ![w] = "can_fetch"]
            /\ cur' = [cur EXCEPT ![w] = [NoCall EXCEPT !.url = urls[w][idx[w]]]]
            /\ html' = [html EXCEPT ![w] = None]
            /\ attempt' = [attempt EXCEPT ![w] = 0]
       ELSE /\ pc' = [pc EXCEPT ![w] = "done"]
            /\ UNCHANGED <<cur, html, attempt>>
    /\ UNCHANGED <<now, workers, max_retries, rate_limit, enable_js, last_request_time,
                   urls, idx, results, wake, sent, gaps>>
    /\ UNCHANGED <<summarize_content, extract_vars, summarize_vars>>

\* can_fetch(url): robots.txt is retrieved and the policy answers
CanFetch(w) ==
    /\ pc[w] = "can_fetch"
    /\ \E outcome \in RobotsOutcomes :
            cur' = [cur EXCEPT ![w] = [Request(@, "robots") EXCEPT
                                            !.robots = outcome,
                                            !.allowed = can_fetch(outcome)]]
    /\ pc' = [pc EXCEPT ![w] = "scrape_page"]
    /\ UNCHANGED <<now, workers, max_retries, rate_limit, enable_js, last_request_time,
                   urls, idx, results, attempt, wake, html, sent, gaps>>
    /\ UNCHANGED <<summarize_content, extract_vars, summarize_vars>>

\* scrape_page after the robots gate: the sentinel, or the fetch
ScrapePage(w) ==
    /\ pc[w] = "scrape_page"
    /\ IF Denied(cur[w].allowed)
       THEN /\ Return(w, DeniedSentinel)
            /\ UNCHANGED cur
       ELSE /\ pc' = [pc EXCEPT ![w] = IF enable_js THEN "fetch_js_page" ELSE "fetch_page"]
            /\ cur' = [cur EXCEPT ![w].robots = ""]
            /\ UNCHANGED <<results, idx>>
    /\ UNCHANGED <<now, workers, max_retries, rate_limit, enable_js, last_request_time,
                   urls, attempt, wake, html, sent, gaps>>
    /\ UNCHANGED <<summarize_content, extract_vars, summarize_vars>>

\* fetch_page: the head of the loop, and respect_rate_limit up to its sleep
FetchPage(w) ==
    /\ pc[w] = "fetch_page"
    /\ IF MoreAttempts(attempt[w])
       THEN IF TooSoon(Netloc(cur[w].url))
            THEN /\ cur' = [cur EXCEPT ![w].awaited = TRUE, ![w].checked = now,
                                       ![w].suspend = Deficit(Netloc(cur[w].url))]
                 /\ wake' = [wake EXCEPT ![w] = now + Deficit(Netloc(cur[w].url))]
                 /\ pc' = [pc EXCEPT ![w] = "rate_sleep"]
            ELSE /\ cur' = [cur EXCEPT ![w].awaited = TRUE, ![w].checked = now,
                                       ![w].suspend = 0]
                 /\ pc' = [pc EXCEPT ![w] = "request"]
                 /\ UNCHANGED wake
       ELSE /\ pc' = [pc EXCEPT ![w] = "got_html"]
            /\ UNCHANGED <<wake, cur>>
    /\ UNCHANGED <<now, workers, max_retries, rate_limit, enable_js, last_request_time,
                   urls, idx, results, attempt, html, sent, gaps>>
    /\ UNCHANGED <<summarize_content, extract_vars, summarize_vars>>

\* time.sleep(self.rate_limit - elapsed_time) is over
RateSleepDone(w) ==
    /\ pc[w] = "rate_sleep"
    /\ now >= wake[w]
    /\ pc' = [pc EXCEPT ![w] = "request"]
    /\ UNCHANGED <<now, workers, max_retries, rate_limit, enable_js, last_request_time,
                   urls, idx, results, attempt, wake, html, cur, sent, gaps>>
    /\ UNCHANGED <<summarize_content, extract_vars, summarize_vars>>

\* respect_rate_limit's last line and requests.get: the server answers with a body, or
\* the request fails (connection error, timeout, error status) after d seconds
HttpGet(w) ==
    /\ pc[w] = "request"
    /\ last_request_time' = (Netloc(cur[w].url) :> now) @@ last_request_time
    /\ sent' = (Origin(cur[w].url) :> now) @@ sent
    /\ gaps' = IF Origin(cur[w].url) \in DOMAIN sent
               THEN (Origin(cur[w].url) :> now - sent[Origin(cur[w].url)]) @@ gaps
               ELSE gaps
    /\ \/ \E doc \in ServedDocs :
            /\ html' = [html EXCEPT ![w] = Markup(doc)]
            /\ cur' = [cur EXCEPT ![w] = [Request(@, "page") EXCEPT
                                            !.nreq = @ + 1,
                                            !.outcomes = Append(@, "ok"),
                                            !.times = Append(@, now)]]
            /\ pc' = [pc EXCEPT ![w] = "got_html"]
            /\ UNCHANGED wake
       \/ /\ cur' = [cur EXCEPT ![w] = [Request(@, "page") EXCEPT
                                          !.nreq = @ + 1,
                                          !.outcomes = Append(@, "error"),
                                          !.times = Append(@, now),
                                          !.sleeps = Append(@, Backoff(attempt[w]))]]
          /\ wake' = [wake EXCEPT ![w] = now + Backoff(attempt[w])]
          /\ pc' = [pc EXCEPT ![w] = "backoff"]
          /\ UNCHANGED html
    /\ UNCHANGED <<now, workers, max_retries, rate_limit, enable_js, urls, idx, results,
                   attempt>>
    /\ UNCHANGED <<summarize_content, extract_vars, summarize_vars>>

\* time.sleep(2 ** attempt) is over: the next attempt
BackoffDone(w) ==
    /\ pc[w] = "backoff"
    /\ now >= wake[w]
    /\ attempt' = [attempt EXCEPT ![w] = attempt[w] + 1]
    /\ pc' = [pc EXCEPT ![w] = "fetch_page"]
    /\ UNCHANGED <<now, workers, max_retries, rate_limit, enable_js, last_request_time,
                   urls, idx, results, wake, html, cur, sent, gaps>>
    /\ UNCHANGED <<summarize_content, extract_vars, summarize_vars>>

\* what happens inside the try block of fetch_js_page
RenderOutcomes == {"context_error", "navigation_error", "timeout", "content_error", "ok"}

\* the outcomes in which page.goto has sent the request
Navigated == RenderOutcomes \ {"context_error"}

\* fetch_js_page up to chromium.launch: rendering is off; or the browser does not
\* launch, and the exception leaves the function, the launch being outside the try;
\* or the browser is launched
FetchJsPage(w) ==
    /\ pc[w] = "fetch_js_page"
    /\ \/ /\ ~enable_js
          /\ pc' = [pc EXCEPT ![w] = "got_html"]
          /\ UNCHANGED <<cur, results, idx>>
       \/ /\ enable_js
          /\ cur' = [cur EXCEPT ![w].browser = "failed", ![w].launches = @ + 1]
          /\ Raise(w)
       \/ /\ enable_js
          /\ cur' = [cur EXCEPT ![w].browser = "open", ![w].launches = @ + 1]
          /\ pc' = [pc EXCEPT ![w] = "rendering"]
          /\ UNCHANGED <<results, idx>>
    /\ UNCHANGED <<now, workers, max_retries, rate_limit, enable_js, last_request_time,
                   urls, attempt, wake, html, sent, gaps>>
    /\ UNCHANGED <<summarize_content, extract_vars, summarize_vars>>

\* the try block of fetch_js_page and its finally: new_context, new_page, page.goto and
\* page.content; any exception is caught and None returned; browser.close() in every case
Render(w) ==
    /\ pc[w] = "rendering"
    /\ \E outcome \in RenderOutcomes :
        LET c == IF outcome \in Navigated
                 THEN [Request(cur[w], "render") EXCEPT !.nreq = @ + 1]
                 ELSE cur[w]
        IN /\ cur' = [cur EXCEPT ![w] = [c EXCEPT !.browser = "closed"]]
           /\ IF outcome = "ok"
              THEN \E doc \in ServedDocs : html' = [html EXCEPT ![w] = Markup(doc)]
              ELSE html' = [html EXCEPT ![w] = None]
    /\ pc' = [pc EXCEPT ![w] = "got_html"]
    /\ UNCHANGED <<now, workers, max_retries, rate_limit, enable_js, last_request_time,
                   urls, idx, results, attempt, wake, sent, gaps>>
    /\ UNCHANGED <<summarize_content, extract_vars, summarize_vars>>

\* scrape_page after the fetch: the failure sentinel, or extract_content
GotHtml(w) ==
    /\ pc[w] = "got_html"
    /\ UNCHANGED html
    /\ IF NotHtml(html[w])
       THEN Return(w, FailedSentinel(cur[w].url))
       ELSE LET r == extract_content(html[w].doc, cur[w].url, summarize_content)
            IN IF r.raised THEN Raise(w) ELSE Return(w, r.value)
    /\ UNCHANGED <<now, workers, max_retries, rate_limit, enable_js, last_request_time,
                   urls, attempt, wake, cur, sent, gaps>>
    /\ UNCHANGED <<summarize_content, extract_vars, summarize_vars>>

\* a second passes while a worker sleeps
Tick ==
    /\ \E w \in workers : pc[w] \in {"rate_sleep", "backoff"} /\ wake[w] > now
    /\ now' = now + 1
    /\ UNCHANGED <<workers, max_retries, rate_limit, enable_js, last_request_time,
                   urls, idx, results, pc, attempt, wake, html, cur, sent, gaps>>
    /\ UNCHANGED <<summarize_content, extract_vars, summarize_vars>>

\* extract_content(x_html, x_url)
ExtractCall ==
    /\ x_pc = "call"
    /\ LET r == extract_content(x_html, x_url, summarize_content)
       IN /\ x_out' = r.value
          /\ x_pc' = IF r.raised THEN "raised" ELSE "returned"
    /\ UNCHANGED <<x_html, x_url, summarize_content, scraper_vars, summarize_vars>>

\* summarize_text(s_text)
SummarizeCall ==
    /\ s_pc = "call"
    /\ s_out' = summarize_text(s_text)
    /\ s_pc' = "returned"
    /\ UNCHANGED <<s_text, summarize_content, scraper_vars, extract_vars>>

---------------------------------------------------------------------------
(* The texts summarize_text is called with *)

MaxTextLen == 8

\* a letter, a full stop, a space
Chars == {1, Dot, Space}

\* the text made of the characters s, adjacent letters merged into one run
RECURSIVE Merge(_)
Merge(s) == IF s = <<>> THEN <<>> ELSE Cat(<<s[1]>>, Merge(Tail(s)))

\* "A. B. C. D."
Example == <<1, Dot, Space, 1, Dot, Space, 1, Dot, Space, 1, Dot>>

\* every string of at most MaxTextLen characters, and the example
SummarizeTexts == {Merge(s) : s \in SeqsUpTo(Chars, MaxTextLen)} \cup {Example}

---------------------------------------------------------------------------
(* Specifications *)

NoResult == [title |-> "", description |-> "", keywords |-> "", content |-> <<>>,
             links |-> <<>>]

Idle ==
    /\ now = 0
    /\ last_request_time = <<>>
    /\ idx = [w \in AllWorkers |-> 1]
    /\ results = [w \in AllWorkers |-> <<>>]
    /\ attempt = [w \in AllWorkers |-> 0]
    /\ wake = [w \in AllWorkers |-> 0]
    /\ html = [w \in AllWorkers |-> None]
    /\ cur = [w \in AllWorkers |-> NoCall]
    /\ sent = <<>>
    /\ gaps = <<>>

NoExtract ==
    /\ x_html = EmptyBody
    /\ x_url = BaseUrl
    /\ x_out = NoResult
    /\ x_pc = "idle"

NoSummarize ==
    /\ s_text = <<>>
    /\ s_out = <<>>
    /\ s_pc = "idle"

\* one thread calls scrape_multiple_pages(urls)
Init ==
    /\ Idle
    /\ NoExtract
    /\ NoSummarize
    /\ workers = {1}
    /\ max_retries \in 0..MaxRetries
    /\ rate_limit \in 1..MaxRateLimit
    /\ enable_js \in BOOLEAN
    /\ summarize_content = TRUE
    /\ \E us \in SeqsUpTo(PageUrls, MaxUrls) :
            urls = [w \in AllWorkers |-> IF w = 1 THEN us ELSE <<>>]
    /\ pc = [w \in AllWorkers |-> IF w = 1 THEN "loop" ELSE "done"]

\* without script rendering
PlainNext ==
    \/ Tick
    \/ \E w \in workers : Loop(w)
    \/ \E w \in workers : CanFetch(w)
    \/ \E w \in workers : ScrapePage(w)
    \/ \E w \in workers : FetchPage(w)
    \/ \E w \in workers : RateSleepDone(w)
    \/ \E w \in workers : HttpGet(w)
    \/ \E w \in workers : BackoffDone(w)
    \/ \E w \in workers : GotHtml(w)

Next ==
    \/ Tick
    \/ \E w \in workers : Loop(w)
    \/ \E w \in workers : CanFetch(w)
    \/ \E w \in workers : ScrapePage(w)
    \/ \E w \in workers : FetchPage(w)
    \/ \E w \in workers : RateSleepDone(w)
    \/ \E w \in workers : HttpGet(w)
    \/ \E w \in workers : BackoffDone(w)
    \/ \E w \in workers : FetchJsPage(w)
    \/ \E w \in workers : Render(w)
    \/ \E w \in workers : GotHtml(w)

Spec == Init /\ [][Next]_vars

\* two threads call scrape_multiple_pages on the one scraper, each with one URL
ConcInit ==
    /\ Idle
    /\ NoExtract
    /\ NoSummarize
    /\ workers = AllWorkers
    /\ max_retries \in 0..MaxRetries
    /\ rate_limit \in 1..MaxRateLimit
    /\ enable_js = FALSE
    /\ summarize_content = TRUE
    /\ urls \in [AllWorkers -> [1..1 -> PortlessUrls]]
    /\ pc = [w \in AllWorkers |-> "loop"]

ConcSpec == ConcInit /\ [][PlainNext]_vars

\* extract_content on every input document
ExtractInit ==
    /\ Idle
    /\ NoSummarize
    /\ workers = {}
    /\ max_retries = MaxRetries
    /\ rate_limit = 1
    /\ enable_js = FALSE
    /\ urls = [w \in AllWorkers |-> <<>>]
    /\ pc = [w \in AllWorkers |-> "done"]
    /\ summarize_content \in BOOLEAN
    /\ x_html \in ExtractDocs
    /\ x_url = BaseUrl
    /\ x_out = NoResult
    /\ x_pc = "call"

ExtractNext == ExtractCall

ExtractSpec == ExtractInit /\ [][ExtractNext]_vars

\* summarize_text on every input text
SummarizeInit ==
    /\ Idle
    /\ NoExtract
    /\ workers = {}
    /\ max_retries = MaxRetries
    /\ rate_limit = 1
    /\ enable_js = FALSE
    /\ urls = [w \in AllWorkers |-> <<>>]
    /\ pc = [w \in AllWorkers |-> "done"]
    /\ summarize_content = TRUE
    /\ s_text \in SummarizeTexts
    /\ s_out = <<>>
    /\ s_pc = "call"

SummarizeNext == SummarizeCall

SummarizeSpec == SummarizeInit /\ [][SummarizeNext]_vars

---------------------------------------------------------------------------
(* Properties *)

\* scrape_page has just returned to the loop of worker w: cur[w] and html[w] are those
\* of the call, and its result is in results[w]
Returned(w) == pc[w] = "loop" /\ idx[w] > 1

\* fetch_page has just returned to scrape_page
Fetched(w) == pc[w] = "got_html" /\ ~enable_js

InFetch(w) ==
    pc[w] \in {"fetch_page", "rate_sleep", "request", "backoff", "fetch_js_page",
               "rendering", "got_html"}

Errors(outcomes) == Cardinality({i \in 1..Len(outcomes) : outcomes[i] = "error"})

\* C1: two consecutive page requests to one origin (scheme and host) are at least
\* rate_limit apart, when one thread issues the fetches one after another
C1_MinGapPerOrigin == \A o \in DOMAIN gaps : gaps[o] >= rate_limit

\* C2: when two threads fetch from one origin through the one scraper, in every
\* interleaving the page requests to that origin are at least rate_limit apart
C2_ConcurrentMinGap ==
    \A w1, w2 \in workers :
        (w1 # w2 /\ Origin(urls[w1][1]) = Origin(urls[w2][1])
                 /\ Origin(urls[w1][1]) \in DOMAIN gaps)
            => gaps[Origin(urls[w1][1])] >= rate_limit

\* C3: fetch_page makes at most max_retries attempts, none after a success; it returns
\* the body of the first successful attempt, and None after exactly max_retries failed
\* attempts; nothing is raised by the fetch
C3_AttemptsBounded ==
    \A w \in workers :
        LET o == cur[w].outcomes IN
        /\ Len(o) <= max_retries
        /\ \A i \in 1..(Len(o) - 1) : o[i] = "error"
        /\ Fetched(w) =>
              IF html[w].none
              THEN Len(o) = max_retries /\ Errors(o) = Len(o)
              ELSE o # <<>> /\ o[Len(o)] = "ok"
        /\ (pc[w] = "raised" /\ ~enable_js) => ~NotHtml(html[w])

C3_Witness ==
    \E w \in workers :
        /\ Fetched(w) /\ html[w].none
        /\ max_retries = 3 /\ Len(cur[w].outcomes) = 3

\* C4 as stated: the sleep after failed attempt k lasts 2^k seconds, and there is a
\* sleep only after a failed attempt that another attempt follows: when fetch_page
\* returns None it has slept max_retries - 1 times (1s, 2s for max_retries = 3)
C4_NoSleepAfterLastAttempt ==
    \A w \in workers :
        (Fetched(w) /\ html[w].none) =>
            cur[w].sleeps = [k \in 1..(max_retries - 1) |-> 2 ^ (k - 1)]

\* C4 amended: every failed attempt k (from 0), the last one included, is followed by
\* a sleep of 2^k seconds that is over before the next attempt or the return: when
\* fetch_page returns None it has slept max_retries times (1s, 2s, 4s for 3)
C4_SleepAfterEveryFailure ==
    \A w \in workers :
        LET c == cur[w] IN
        /\ c.sleeps = [k \in 1..Errors(c.outcomes) |-> 2 ^ (k - 1)]
        /\ \A k \in 1..(Len(c.times) - 1) : c.times[k + 1] - c.times[k] >= c.sleeps[k]
        /\ (Fetched(w) /\ html[w].none) =>
              /\ Len(c.sleeps) = max_retries
              /\ max_retries > 0 => now - c.times[max_retries] >= c.sleeps[max_retries]

C4_Witness ==
    \E w \in workers :
        /\ Fetched(w) /\ html[w].none
        /\ max_retries = 3 /\ cur[w].sleeps = <<1, 2, 4>>

\* C5: when can_fetch answers False, scrape_page returns the robots sentinel and
\* neither fetch_page nor fetch_js_page is entered: no page request, retry or backoff
C5_DeniedNoRequest ==
    \A w \in workers :
        /\ InFetch(w) => cur[w].allowed
        /\ (Returned(w) /\ ~cur[w].allowed) =>
              /\ results[w][cur[w].url] = DeniedSentinel
              /\ cur[w].nreq = 0
              /\ cur[w].outcomes = <<>>
              /\ cur[w].sleeps = <<>>

C5_Witness ==
    \E w \in workers :
        Returned(w) /\ cur[w].robots = "disallow" /\ ~cur[w].allowed

\* C6: no error escapes scrape_multiple_pages, and the mapping it returns has a key
\* for every input URL
C6_NoErrorEscapes ==
    \A w \in workers :
        /\ pc[w] # "raised"
        /\ pc[w] = "done" => \A i \in 1..Len(urls[w]) : urls[w][i] \in DOMAIN results[w]

\* C7: can_fetch answers True whenever the robots document cannot be retrieved or
\* parsed
C7_FailOpen ==
    \A w \in workers :
        (pc[w] = "scrape_page" /\ cur[w].robots \in Unavailable) => cur[w].allowed

\* C8: after the robots gate allowed the URL, scrape_page returns the failure sentinel
\* exactly when the fetch returned None, and extract_content's result for every other
\* markup, the empty body included
C8_SentinelIffNone ==
    \A w \in workers :
        (Returned(w) /\ cur[w].allowed) =>
            LET r == results[w][cur[w].url] IN
            /\ (r = FailedSentinel(cur[w].url)) <=> html[w].none
            /\ ~html[w].none =>
                  r = extract_content(html[w].doc, cur[w].url, summarize_content).value

\* the distinct elements of s in the order of their first occurrence, at most n
RECURSIVE FirstDistinct(_, _, _)
FirstDistinct(s, seen, n) ==
    IF s = <<>> \/ Len(seen) = n THEN seen
    ELSE IF Head(s) \in Range(seen) THEN FirstDistinct(Tail(s), seen, n)
    ELSE FirstDistinct(Tail(s), Append(seen, Head(s)), n)

\* C9: the content of every result has at most 2400 characters
C9_ContentWithinCap ==
    x_pc = "returned" => TLen(x_out.content) <= MaxContentChars

\* C10: the links of extract_content's result hold no duplicates and are the first 10
\* distinct resolved URLs of the anchors: min(d, 10) entries for d distinct URLs
C10_FirstTenDistinct ==
    x_pc = "returned" =>
        LET all == Resolved(AllAnchors(Decompose(x_html.nodes)), x_url)
            d == Cardinality(Range(all))
        IN /\ Cardinality(Range(x_out.links)) = Len(x_out.links)
           /\ Range(x_out.links) = Range(FirstDistinct(all, <<>>, MaxLinks))
           /\ Len(x_out.links) = IF d < MaxLinks THEN d ELSE MaxLinks


\* the places of text where a ". " starts
DotSpPlaces(t) == {i \in 1..(Len(t) - 1) : t[i] = Dot /\ t[i + 1] = Space}

\* the place where the k-th ". " of text starts
KthDotSp(t, k) ==
    CHOOSE i \in DotSpPlaces(t) : Cardinality({j \in DotSpPlaces(t) : j <= i}) = k

\* C11: summarize_text returns text unchanged when text holds at most two ". " (at
\* most 3 segments), and otherwise returns what precedes the third ". " of text (the
\* first 3 segments with the ". " between them) followed by "..."; "A. B. C. D."
\* gives "A. B. C..."
C11_SummaryIsPrefix ==
    s_pc = "returned" =>
        /\ IF Cardinality(DotSpPlaces(s_text)) < SummarySentences
           THEN s_out = s_text
           ELSE s_out = SubSeq(s_text, 1, KthDotSp(s_text, SummarySentences) - 1)
                            \o Ellipsis
        /\ s_text = Example => s_out = <<1, Dot, Space, 1, Dot, Space, 1, Dot, Dot, Dot>>

\* the example has been summarized
C11_Witness ==
    /\ s_pc = "returned"
    /\ s_text = Example
    /\ s_out # s_text

\* a text of exactly 3 segments has been returned as it is
C11_WitnessUnchanged ==
    /\ s_pc = "returned"
    /\ Cardinality(DotSpPlaces(s_text)) = SummarySentences - 1
    /\ s_out = s_text

\* C12: every request sent during a scrape_page call, for robots.txt, for the page
\* with requests.get and for the page with the browser, comes after a call of
\* respect_rate_limit for its URL: no request bypasses the rate limiter
C12_NoRequestBypassesLimiter == \A w \in workers : cur[w].bypass = {}

\* the same, of the page requests alone (the robots.txt request left aside)
C12_NoPageRequestBypassesLimiter ==
    \A w \in workers : cur[w].bypass \cap {"page", "render"} = {}

\* the same, of the requests of fetch_page alone
C12_PlainRequestsAwaited == \A w \in workers : "page" \notin cur[w].bypass

\* fetch_js_page has just returned to scrape_page
Rendered(w) == pc[w] = "got_html" /\ enable_js

\* C13: fetch_js_page makes one rendering attempt per call; no rendering error, that
\* of the browser launch included, leaves it as an exception; it returns None on every
\* such error; and whenever it returns, the browser it launched has been closed
C13_RenderedNullOnAnyError ==
    \A w \in workers :
        /\ cur[w].launches <= 1
        /\ ~(pc[w] = "raised" /\ cur[w].browser = "failed")
        /\ Rendered(w) => /\ cur[w].browser = "closed"
                          /\ cur[w].launches = 1
                          /\ cur[w].nreq <= 1

\* what holds of the code: once the browser is launched, fetch_js_page returns with
\* the browser closed, after one attempt, and nothing is raised
C13_ClosedOnceLaunched ==
    \A w \in workers :
        /\ cur[w].launches <= 1
        /\ Rendered(w) => /\ cur[w].browser = "closed"
                          /\ cur[w].launches = 1
                          /\ cur[w].nreq <= 1
        /\ pc[w] = "rendering" => cur[w].browser = "open"

Max(a, b) == IF a >= b THEN a ELSE b

\* respect_rate_limit of worker w has made its check and has not yet recorded the time
Awaiting(w) == pc[w] \in {"rate_sleep", "request"}

\* max(0, rate_limit - elapsed), elapsed being the time from the last request to the
\* origin of url to time t; 0 when no request has been sent to that origin
OriginDeficit(url, t) ==
    IF Origin(url) \in DOMAIN sent
    THEN Max(0, rate_limit - (t - sent[Origin(url)]))
    ELSE 0

\* C14: respect_rate_limit(url) sleeps for exactly max(0, rate_limit - elapsed), where
\* elapsed is the time since the timestamp recorded for the origin (scheme and host) of
\* url: it does not sleep when that origin has no timestamp or when rate_limit has
\* elapsed, and a timestamp recorded for another origin never delays it
C14_SuspendsForOriginDeficit ==
    \A w \in workers :
        Awaiting(w) => cur[w].suspend = OriginDeficit(cur[w].url, cur[w].checked)

\* what holds of the code: the sleep is the deficit of the netloc (host and port) of url
NetlocDeficit(url, t) ==
    IF Netloc(url) \in DOMAIN last_request_time
    THEN Max(0, rate_limit - (t - last_request_time[Netloc(url)]))
    ELSE 0

C14_SuspendsForNetlocDeficit ==
    \A w \in workers :
        Awaiting(w) => cur[w].suspend = NetlocDeficit(cur[w].url, cur[w].checked)

=============================================================================
